---------------------------- MODULE Spec2Model ----------------------------
(***************************************************************************)
(* Model of src/converters/qwen.py: the Qwen tool-call converter           *)
(* (QwenToolCallConverter) and the streaming handler that drives it.       *)
(*                                                                         *)
(* Text is modelled character by character: a Python str is a sequence of  *)
(* one-character strings, so that truncation at any character boundary,    *)
(* regex span matching and the joining of text around a removed span are   *)
(* all computed as the code computes them.                                 *)
(***************************************************************************)
EXTENDS Integers, Sequences, FiniteSets, TLC

(***************************************************************************)
(* Markup grammar: the literal tags of the dialect.                        *)
(***************************************************************************)
TOOL_OPEN == <<"<","t","o","o","l","_","c","a","l","l",">">>
TOOL_CLOSE == <<"<","/","t","o","o","l","_","c","a","l","l",">">>
FUNC_OPEN == <<"<","f","u","n","c","t","i","o","n","=">>
FUNC_CLOSE == <<"<","/","f","u","n","c","t","i","o","n",">">>
PARAM_OPEN == <<"<","p","a","r","a","m","e","t","e","r","=">>
PARAM_CLOSE == <<"<","/","p","a","r","a","m","e","t","e","r",">">>
GT == <<">">>

\* The list `markers` of has_partial_tool_call.
markers == <<TOOL_OPEN, TOOL_CLOSE, FUNC_OPEN, FUNC_CLOSE, PARAM_OPEN, PARAM_CLOSE>>

(***************************************************************************)
(* Python str primitives.                                                  *)
(***************************************************************************)
\* s[i-1:].startswith(m), 1-based.
StartsAt(s, i, m) ==
    /\ i >= 1
    /\ i + Len(m) - 1 <= Len(s)
    /\ \A k \in 1..Len(m) : s[i + k - 1] = m[k]

\* s.find(m, from-1) + 1: the first index >= from at which m occurs, 0 if none.
Find(s, m, from) ==
    LET hits == {i \in from..(Len(s) - Len(m) + 1) : StartsAt(s, i, m)}
    IN  IF hits = {} THEN 0 ELSE CHOOSE i \in hits : \A j \in hits : i <= j

\* `m in s`
Contains(s, m) == Find(s, m, 1) # 0

\* s.endswith(p)
EndsWith(s, p) == Len(p) <= Len(s) /\ StartsAt(s, Len(s) - Len(p) + 1, p)

\* s[from-1:]
From(s, from) == SubSeq(s, from, Len(s))

\* The characters str.strip() removes.
Whitespace == {" ", "\n", "\t", "\r"}

\* s.strip(): the text from its first to its last character that is not
\* whitespace.
Strip(s) ==
    LET keep == {i \in 1..Len(s) : s[i] \notin Whitespace}
    IN  IF keep = {} THEN <<>>
        ELSE SubSeq(s, CHOOSE i \in keep : \A j \in keep : i <= j,
                       CHOOSE i \in keep : \A j \in keep : i >= j)

\* s.replace(m, ''): occurrences are found left to right, without overlap,
\* in one pass.
RECURSIVE ReplaceFrom(_, _, _)
ReplaceFrom(s, m, pos) ==
    LET i == Find(s, m, pos)
    IN  IF i = 0 THEN From(s, pos)
        ELSE SubSeq(s, pos, i - 1) \o ReplaceFrom(s, m, i + Len(m))

Replace(s, m) == ReplaceFrom(s, m, 1)

(***************************************************************************)
(* Regular expressions of the converter, all with re.DOTALL.               *)
(***************************************************************************)
\* re.search(open .*? close, s[pos-1:]): <<start, end>> of the leftmost
\* match (end is the index of its last character), or <<0, 0>>.  The
\* leftmost occurrence of `open` that is followed by `close` is the first
\* occurrence of `open`: a later occurrence is followed by no more closes
\* than the first one.
SearchSpan(s, open, close, pos) ==
    LET i == Find(s, open, pos)
        j == IF i = 0 THEN 0 ELSE Find(s, close, i + Len(open))
    IN  IF j = 0 THEN <<0, 0>> ELSE <<i, j + Len(close) - 1>>

\* re.sub(open .*? close, '', s): every leftmost non-overlapping match is
\* removed; the text between matches is kept.
RECURSIVE SubSpanFrom(_, _, _, _)
SubSpanFrom(s, open, close, pos) ==
    LET m == SearchSpan(s, open, close, pos)
    IN  IF m[1] = 0 THEN From(s, pos)
        ELSE SubSeq(s, pos, m[1] - 1) \o SubSpanFrom(s, open, close, m[2] + 1)

SubSpan(s, open, close) == SubSpanFrom(s, open, close, 1)

\* re.findall(open (.*?) > (.*?) close, s): the pairs <<group 1, group 2>>
\* of the leftmost non-overlapping matches.  Group 1 is non-greedy, so it
\* ends at the first `>` after `open`; if no `close` follows that `>`,
\* none follows a later `>` either, and there is no match from here on.
RECURSIVE FindAllFrom(_, _, _, _)
FindAllFrom(s, open, close, pos) ==
    LET i == Find(s, open, pos)
        g == IF i = 0 THEN 0 ELSE Find(s, GT, i + Len(open))
        j == IF g = 0 THEN 0 ELSE Find(s, close, g + 1)
    IN  IF j = 0 THEN <<>>
        ELSE <<  <<SubSeq(s, i + Len(open), g - 1), SubSeq(s, g + 1, j - 1)>>  >>
             \o FindAllFrom(s, open, close, j + Len(close))

FindAll(s, open, close) == FindAllFrom(s, open, close, 1)

(***************************************************************************)
(* json.loads and json.dumps.  A decoded value is a tagged record:         *)
(*   [t |-> "str", v |-> characters]   [t |-> "int", v |-> n]              *)
(*   [t |-> "list", v |-> <<values>>]  [t |-> "dict", v |-> <<>>]          *)
(* The decoder covers the JSON the inputs of this model can spell: arrays, *)
(* non-negative integers and the empty object.  The input alphabets hold   *)
(* no quote, colon, sign, point or letter of true/false/null, so any other *)
(* text is a JSONDecodeError, as it is for json.loads.                     *)
(***************************************************************************)
Digits == <<"0", "1", "2", "3", "4", "5", "6", "7", "8", "9">>

IsDigit(c) == \E d \in 1..10 : Digits[d] = c

DigitVal(c) == (CHOOSE d \in 1..10 : Digits[d] = c) - 1

JsonFail == [ok |-> FALSE, val |-> [t |-> "none", v |-> 0], next |-> 0]

\* The index of the first character from i on that is not whitespace
\* (Len(s) + 1 if there is none).
SkipWs(s, i) ==
    LET keep == {k \in i..Len(s) : s[k] \notin Whitespace}
    IN  IF keep = {} THEN IF i > Len(s) THEN i ELSE Len(s) + 1
        ELSE CHOOSE k \in keep : \A j \in keep : k <= j

\* The digits of an integer from index i on, most significant first.
RECURSIVE ScanInt(_, _, _)
ScanInt(s, i, acc) ==
    IF i <= Len(s) /\ IsDigit(s[i])
    THEN ScanInt(s, i + 1, 10 * acc + DigitVal(s[i]))
    ELSE [ok |-> TRUE, val |-> [t |-> "int", v |-> acc], next |-> i]

RECURSIVE ParseValue(_, _)
RECURSIVE ParseElems(_, _, _)

\* One JSON value starting exactly at index i.
ParseValue(s, i) ==
    IF i > Len(s) THEN JsonFail
    ELSE IF s[i] = "[" THEN
        LET k == SkipWs(s, i + 1)
        IN  IF k <= Len(s) /\ s[k] = "]"
            THEN [ok |-> TRUE, val |-> [t |-> "list", v |-> <<>>], next |-> k + 1]
            ELSE ParseElems(s, k, <<>>)
    ELSE IF s[i] = "{" THEN
        LET k == SkipWs(s, i + 1)
        IN  IF k <= Len(s) /\ s[k] = "}"
            THEN [ok |-> TRUE, val |-> [t |-> "dict", v |-> <<>>], next |-> k + 1]
            ELSE JsonFail
    ELSE IF s[i] = "0" THEN
        \* a leading zero ends the number
        [ok |-> TRUE, val |-> [t |-> "int", v |-> 0], next |-> i + 1]
    ELSE IF IsDigit(s[i]) THEN ScanInt(s, i, 0)
    ELSE JsonFail

\* The elements of an array after `[`, the next one starting at index i.
ParseElems(s, i, acc) ==
    LET e == ParseValue(s, i)
        k == IF e.ok THEN SkipWs(s, e.next) ELSE 0
    IN  IF ~e.ok \/ k > Len(s) THEN JsonFail
        ELSE IF s[k] = "," THEN ParseElems(s, SkipWs(s, k + 1), Append(acc, e.val))
        ELSE IF s[k] = "]"
             THEN [ok |-> TRUE, val |-> [t |-> "list", v |-> Append(acc, e.val)],
                   next |-> k + 1]
        ELSE JsonFail

\* json.loads(s): ok is FALSE where json.loads raises JSONDecodeError.
json_loads(s) ==
    LET r == ParseValue(s, SkipWs(s, 1))
    IN  IF r.ok /\ SkipWs(s, r.next) = Len(s) + 1 THEN r ELSE JsonFail

\* str(n) for n >= 0.
RECURSIVE IntToStr(_)
IntToStr(n) ==
    IF n < 10 THEN <<Digits[n + 1]>>
    ELSE IntToStr(n \div 10) \o <<Digits[(n % 10) + 1]>>

\* The JSON escape of one character of a string (ensure_ascii=False).
EscapeChar(c) ==
    CASE c = "\"" -> <<"\\", "\"">>
      [] c = "\\" -> <<"\\", "\\">>
      [] c = "\n" -> <<"\\", "n">>
      [] c = "\r" -> <<"\\", "r">>
      [] c = "\t" -> <<"\\", "t">>
      [] OTHER -> <<c>>

RECURSIVE EscapeStr(_)
EscapeStr(s) ==
    IF s = <<>> THEN <<>> ELSE EscapeChar(Head(s)) \o EscapeStr(Tail(s))

RECURSIVE DumpValue(_)
RECURSIVE DumpItems(_)

DumpValue(x) ==
    CASE x.t = "str" -> <<"\"">> \o EscapeStr(x.v) \o <<"\"">>
      [] x.t = "int" -> IntToStr(x.v)
      [] x.t = "list" -> <<"[">> \o DumpItems(x.v) \o <<"]">>
      [] x.t = "dict" -> <<"{", "}">>

\* The items of a list, separated by ", ".
DumpItems(xs) ==
    IF xs = <<>> THEN <<>>
    ELSE IF Len(xs) = 1 THEN DumpValue(xs[1])
    ELSE DumpValue(xs[1]) \o <<",", " ">> \o DumpItems(Tail(xs))

\* The entries of a dict, in insertion order: "key": value, separated by ", ".
RECURSIVE DumpEntries(_)
DumpEntries(d) ==
    IF d = <<>> THEN <<>>
    ELSE LET e == <<"\"">> \o EscapeStr(d[1].key) \o <<"\"", ":", " ">>
                  \o DumpValue(d[1].value)
         IN  IF Len(d) = 1 THEN e ELSE e \o <<",", " ">> \o DumpEntries(Tail(d))

\* json.dumps(arguments, ensure_ascii=False) for a dict with str keys.
json_dumps(d) == <<"{">> \o DumpEntries(d) \o <<"}">>

(***************************************************************************)
(* A Python dict with str keys: the sequence of its entries in insertion   *)
(* order.                                                                  *)
(***************************************************************************)
\* d[k] = v as a list would take it: every assignment adds an entry.
DictSetAppending(d, k, v) == Append(d, [key |-> k, value |-> v])

\* d[k] = v: a key already present keeps its position and takes the new
\* value.
DictSet(d, k, v) ==
    IF \E n \in 1..Len(d) : d[n].key = k
    THEN [n \in 1..Len(d) |->
            IF d[n].key = k THEN [key |-> k, value |-> v] ELSE d[n]]
    ELSE Append(d, [key |-> k, value |-> v])

(***************************************************************************)
(* QwenToolCallConverter.                                                  *)
(***************************************************************************)
\* The modulus of the tool-call id.
ID_MODULUS == 1000000000

\* The text hashed for the id of block i (0-based): f"{name}_{i}_{n}",
\* where n = len(tool_calls) is the number of calls built before it.
IdKey(function_name, i, n) ==
    function_name \o <<"_">> \o IntToStr(i) \o <<"_">> \o IntToStr(n)

\* One iteration of the parameter loop: the value is decoded as JSON when
\* it starts with `[` or `{` and decodes, and is kept as a string otherwise.
SetArgument(arguments, param) ==
    LET key == Strip(param[1])
        value == Strip(param[2])
        looksJson == value # <<>> /\ Head(value) \in {"[", "{"}
        decoded == IF looksJson THEN json_loads(value) ELSE JsonFail
    IN  IF looksJson /\ decoded.ok
        THEN DictSet(arguments, key, decoded.val)
        ELSE DictSet(arguments, key, [t |-> "str", v |-> value])

\* The parameter loop over param_matches, from the empty dict.
RECURSIVE BuildArguments(_, _)
BuildArguments(arguments, param_matches) ==
    IF param_matches = <<>> THEN arguments
    ELSE BuildArguments(SetArgument(arguments, Head(param_matches)),
                        Tail(param_matches))

\* The arguments dict of one function block.
ParseArguments(params_block) ==
    BuildArguments(<<>>, FindAll(params_block, PARAM_OPEN, PARAM_CLOSE))

\* The tool call built for the i-th match (0-based), `n` calls having been
\* appended before it.  hash is the process's str hash.
MakeToolCall(match, i, n, hash) ==
    LET function_name == Strip(match[1])
    IN  [id |-> IntToStr(hash[IdKey(function_name, i, n)] % ID_MODULUS),
         type |-> "function",
         function |-> [name |-> function_name,
                       arguments |-> json_dumps(ParseArguments(match[2]))]]

\* The texts parse_tool_calls hashes for `content`.
HashKeys(content) ==
    LET function_matches == FindAll(content, FUNC_OPEN, FUNC_CLOSE)
    IN  {IdKey(Strip(function_matches[n][1]), n - 1, n - 1) :
            n \in 1..Len(function_matches)}

\* parse_tool_calls(content): one tool call per function block, in document
\* order.  Every match appends one call, so len(tool_calls) = i in the loop.
parse_tool_calls(content, hash) ==
    LET function_matches == FindAll(content, FUNC_OPEN, FUNC_CLOSE)
    IN  [n \in 1..Len(function_matches) |->
            MakeToolCall(function_matches[n], n - 1, n - 1, hash)]

\* content.endswith(marker[:i]) for some marker and some 1 <= i < len(marker).
EndsWithPartialMarker(content) ==
    \E m \in 1..Len(markers) : \E i \in 1..(Len(markers[m]) - 1) :
        EndsWith(content, SubSeq(markers[m], 1, i))

\* any(marker in content for marker in markers)
ContainsMarker(content) ==
    \E m \in 1..Len(markers) : Contains(content, markers[m])

\* has_partial_tool_call without its second loop: whole markers only.
has_whole_marker(content) == ContainsMarker(content)

\* has_partial_tool_call with `marker[:i] in content` for
\* content.endswith(marker[:i]).
has_marker_prefix_anywhere(content) ==
    \/ ContainsMarker(content)
    \/ \E m \in 1..Len(markers) : \E i \in 1..(Len(markers[m]) - 1) :
            Contains(content, SubSeq(markers[m], 1, i))

\* has_partial_tool_call(content)
has_partial_tool_call(content) ==
    ContainsMarker(content) \/ EndsWithPartialMarker(content)

\* is_complete_tool_call without the wrapper rule: a whole function span is
\* enough, in an open wrapper too.
is_complete_ignoring_wrapper(content) ==
    SearchSpan(content, FUNC_OPEN, FUNC_CLOSE, 1)[1] # 0

\* is_complete_tool_call(content)
is_complete_tool_call(content) ==
    IF Contains(content, TOOL_OPEN)
    THEN Contains(content, TOOL_CLOSE)
    ELSE SearchSpan(content, FUNC_OPEN, FUNC_CLOSE, 1)[1] # 0

\* _clean_content's removal without its second re.sub: wrapped tool calls
\* only.
RemoveWrappedSpans(content) == SubSpan(content, TOOL_OPEN, TOOL_CLOSE)

\* The two re.sub calls of _clean_content: wrapped tool calls, then
\* standalone function calls.
RemoveSpans(content) ==
    SubSpan(SubSpan(content, TOOL_OPEN, TOOL_CLOSE), FUNC_OPEN, FUNC_CLOSE)

\* The first lone-tag check of _clean_content, on the text the re.sub calls
\* left.
StripLoneOpen(content) ==
    IF Contains(content, TOOL_OPEN) /\ ~Contains(content, TOOL_CLOSE)
    THEN Replace(content, TOOL_OPEN)
    ELSE content

\* The second lone-tag check, on the text the first check left.
StripLoneClose(content) ==
    IF Contains(content, TOOL_CLOSE) /\ ~Contains(content, TOOL_OPEN)
    THEN Replace(content, TOOL_CLOSE)
    ELSE content

\* _clean_content with its lone-tag checks made on the original text
\* instead of the text the re.sub calls left.
clean_content_checking_original(content) ==
    LET rest == RemoveSpans(content)
        first == IF Contains(rest, TOOL_OPEN) /\ ~Contains(content, TOOL_CLOSE)
                 THEN Replace(rest, TOOL_OPEN) ELSE rest
        second == IF Contains(first, TOOL_CLOSE) /\ ~Contains(content, TOOL_OPEN)
                  THEN Replace(first, TOOL_CLOSE) ELSE first
    IN  Strip(second)

\* _clean_content(content)
_clean_content(content) ==
    Strip(StripLoneClose(StripLoneOpen(RemoveSpans(content))))

(***************************************************************************)
(* State.                                                                  *)
(***************************************************************************)
VARIABLES
    input,       \* the shape the text was written from (prose, wrapper, blocks)
    content,     \* the `content` argument of the converter's methods
    op,          \* the method applied to content last ("input": none yet)
    partial,     \* the result of has_partial_tool_call(content)
    complete,    \* the result of is_complete_tool_call(content)
    tool_calls,  \* the result of parse_tool_calls(content)
    cleaned,     \* the result of _clean_content(content)
    recleaned,   \* the result of _clean_content(cleaned)
    turn,        \* the text of the model turn delivered to the handler
    pos,         \* how many characters of turn have been delivered
    buffer,      \* StreamState: the text accumulated and not yet emitted
    hstate,      \* the handler's state: IDLE, PENDING or FLUSHED
    emitted,     \* the handler's output so far: the ToolCall lists emitted,
                 \* in order, and the content emitted, joined
    flushed      \* the text flush() returned

convVars == <<content, op, partial, complete, tool_calls, cleaned, recleaned>>
streamVars == <<turn, pos, buffer, hstate, emitted, flushed>>
vars == <<input, content, op, partial, complete, tool_calls, cleaned,
          recleaned, turn, pos, buffer, hstate, emitted, flushed>>

(***************************************************************************)
(* Inputs.                                                                 *)
(***************************************************************************)
\* Bounds of the input sets.
MaxPieces == 3
MaxParams == 3
MaxCalls == 2

\* The values hash() takes in the model.  A str hash is a 64-bit integer
\* that depends on the process's hash seed; these three stand for it, two
\* of them congruent modulo ID_MODULUS.
HashValues == {17, 42, 1000000017}

\* The pieces free text is written from: the six markers, pieces of
\* markers, and plain characters.
Pieces ==
    {TOOL_OPEN, TOOL_CLOSE, FUNC_OPEN, FUNC_CLOSE, PARAM_OPEN, PARAM_CLOSE,
     <<"<","t","o","o","l","_">>, <<"c","a","l","l",">">>,
     <<"<">>, <<">">>, <<"f">>, <<"\n">>}

\* Every text of at most n pieces.
RECURSIVE TextsOf(_)
TextsOf(n) ==
    IF n = 0 THEN {<<>>}
    ELSE LET shorter == TextsOf(n - 1)
         IN  shorter \cup {t \o p : t \in shorter, p \in Pieces}

FreeTexts == TextsOf(MaxPieces)

\* Function names as the model writes them between `=` and `>`.
BlockNames == {<<"f">>, <<" ","g"," ">>}

\* Parameter blocks <<name, value>> as written: two spellings of two names,
\* a plain value, a value with surrounding whitespace and a newline, a JSON
\* array and a text that only starts like one.
BlockParams ==
    {<< <<"k">>, <<"v">> >>,
     << <<"k", " ">>, <<" ","w","\n","w","\n">> >>,
     << <<"x">>, <<"[","1",","," ","2","0","]">> >>,
     << <<" ","x">>, <<"[","1">> >>}

\* Every sequence of at most n elements of S.
RECURSIVE SeqsOf(_, _)
SeqsOf(S, n) ==
    IF n = 0 THEN {<<>>}
    ELSE LET shorter == SeqsOf(S, n - 1)
         IN  shorter \cup {Append(q, x) : q \in shorter, x \in S}

\* Prose without any marker; some of it ends or starts inside a marker.
Prose ==
    {<<>>, <<"a"," ">>, <<"\n","b">>, <<"<","t","o","o","l","_">>,
     <<"c","a","l","l",">">>, <<"<","f","u","n","c">>, <<"t","i","o","n","=">>,
     <<"<","/">>}

PlainProse == {<<>>, <<"a"," ">>, <<"\n","b">>}

RECURSIVE RenderParams(_)
RenderParams(params) ==
    IF params = <<>> THEN <<>>
    ELSE PARAM_OPEN \o params[1][1] \o GT \o params[1][2] \o PARAM_CLOSE
         \o RenderParams(Tail(params))

\* <function=NAME>PARAMETERS</function>
RenderBlock(b) ==
    FUNC_OPEN \o b.name \o GT \o RenderParams(b.params) \o FUNC_CLOSE

RECURSIVE RenderBlocks(_)
RenderBlocks(blocks) ==
    IF blocks = <<>> THEN <<>>
    ELSE RenderBlock(blocks[1]) \o RenderBlocks(Tail(blocks))

\* The text of an input: prose, the blocks (in a wrapper or not), prose.
Render(i) ==
    i.prefix
    \o (IF i.wrapped THEN TOOL_OPEN ELSE <<>>)
    \o RenderBlocks(i.blocks)
    \o (IF i.wrapped THEN TOOL_CLOSE ELSE <<>>)
    \o i.suffix

NoInput == [prefix |-> <<>>, wrapped |-> FALSE, blocks |-> <<>>, suffix |-> <<>>]

\* One block with up to MaxParams parameters in little prose, or one block
\* with at most one parameter in any prose.
BlockInputs ==
    {[prefix |-> p, wrapped |-> w, blocks |-> << [name |-> n, params |-> ps] >>,
      suffix |-> x] :
        p \in PlainProse, w \in BOOLEAN, n \in BlockNames,
        ps \in SeqsOf(BlockParams, MaxParams), x \in {<<>>, <<" ","b">>}}
    \cup
    {[prefix |-> p, wrapped |-> w, blocks |-> << [name |-> <<"f">>, params |-> ps] >>,
      suffix |-> x] :
        p \in Prose, w \in BOOLEAN, ps \in SeqsOf(BlockParams, 1), x \in Prose}

\* Up to MaxCalls blocks, each with at most one parameter.
CallInputs ==
    {[prefix |-> <<>>, wrapped |-> w, blocks |-> bs, suffix |-> <<>>] :
        w \in BOOLEAN,
        bs \in SeqsOf({[name |-> n, params |-> ps] :
                          n \in BlockNames, ps \in SeqsOf(BlockParams, 1)},
                      MaxCalls)}

\* The inputs whose prefixes are taken: one block with at most one
\* parameter.
TruncInputs == {i \in BlockInputs : Len(i.blocks[1].params) <= 1}

\* Scenario 4: a wrapper that never closes.
UnclosedWrapper == TOOL_OPEN \o RenderBlock([name |-> <<"f">>, params |-> <<>>])

\* The turns of one standalone function block with at most one parameter
\* and nothing around it.
StandaloneTurns ==
    {RenderBlock([name |-> n, params |-> ps]) :
        n \in BlockNames, ps \in SeqsOf(BlockParams, 1)}

\* The turns streamed to the handler: the standalone blocks, a block
\* between prose (wrapped and not), two blocks in a row, and the wrapper
\* that never closes.
StreamTexts ==
    StandaloneTurns
    \cup {Render([prefix |-> <<"a"," ">>, wrapped |-> w,
                  blocks |-> << [name |-> <<"f">>, params |-> <<>>] >>,
                  suffix |-> <<" ","b">>]) : w \in BOOLEAN}
    \cup {RenderBlocks(<< [name |-> <<"f">>, params |-> <<>>],
                          [name |-> <<"g">>, params |-> <<>>] >>)}
    \cup {UnclosedWrapper}

(***************************************************************************)
(* Initial states.                                                         *)
(***************************************************************************)
ConvInit(i, text) ==
    /\ input = i
    /\ content = text
    /\ op = "input"
    /\ partial = FALSE
    /\ complete = FALSE
    /\ tool_calls = <<>>
    /\ cleaned = <<>>
    /\ recleaned = <<>>

StreamInit(text) ==
    /\ turn = text
    /\ pos = 0
    /\ buffer = <<>>
    /\ hstate = "IDLE"
    /\ emitted = [calls |-> <<>>, content |-> <<>>]
    /\ flushed = <<>>

\* Any text of at most MaxPieces pieces.
InitFree == \E t \in FreeTexts : ConvInit(NoInput, t) /\ StreamInit(<<>>)

\* One function block, in or out of a wrapper, between prose.
InitBlock == \E i \in BlockInputs : ConvInit(i, Render(i)) /\ StreamInit(<<>>)

InitTrunc == \E i \in TruncInputs : ConvInit(i, Render(i)) /\ StreamInit(<<>>)

\* Up to MaxCalls function blocks.
InitCalls == \E i \in CallInputs : ConvInit(i, Render(i)) /\ StreamInit(<<>>)

\* A handler created for a turn, nothing delivered yet.
InitStream == \E t \in StreamTexts : ConvInit(NoInput, <<>>) /\ StreamInit(t)

(***************************************************************************)
(* The converter's methods, each applied to content.                       *)
(***************************************************************************)
HasPartial ==
    /\ op = "input"
    /\ partial' = has_partial_tool_call(content)
    /\ op' = "has_partial"
    /\ UNCHANGED <<input, content, complete, tool_calls, cleaned, recleaned>>
    /\ UNCHANGED streamVars

IsComplete ==
    /\ op = "input"
    /\ complete' = is_complete_tool_call(content)
    /\ op' = "is_complete"
    /\ UNCHANGED <<input, content, partial, tool_calls, cleaned, recleaned>>
    /\ UNCHANGED streamVars

\* hash is the str hash of the process the call runs in.
Parse ==
    /\ op = "input"
    /\ \E hash \in [HashKeys(content) -> HashValues] :
           tool_calls' = parse_tool_calls(content, hash)
    /\ op' = "parse"
    /\ UNCHANGED <<input, content, partial, complete, cleaned, recleaned>>
    /\ UNCHANGED streamVars

Clean ==
    /\ op = "input"
    /\ cleaned' = _clean_content(content)
    /\ op' = "clean"
    /\ UNCHANGED <<input, content, partial, complete, tool_calls, recleaned>>
    /\ UNCHANGED streamVars

\* _clean_content applied to its own result.
CleanAgain ==
    /\ op = "clean"
    /\ recleaned' = _clean_content(cleaned)
    /\ op' = "reclean"
    /\ UNCHANGED <<input, content, partial, complete, tool_calls, cleaned>>
    /\ UNCHANGED streamVars

\* The text is cut to one of its strict prefixes before a method sees it.
Truncate ==
    /\ op = "input"
    /\ content = Render(input)
    /\ \E k \in 0..(Len(content) - 1) : content' = SubSeq(content, 1, k)
    /\ UNCHANGED <<input, op, partial, complete, tool_calls, cleaned, recleaned>>
    /\ UNCHANGED streamVars

(***************************************************************************)
(* The streaming handler.                                                  *)
(***************************************************************************)
\* The next k characters of the turn.
Fragment(k) == SubSeq(turn, pos + 1, pos + k)

\* No markup in the buffer: the prose is emitted and the handler stays in
\* IDLE.
FeedIdle(k) ==
    LET buf == buffer \o Fragment(k)
    IN  /\ ~has_partial_tool_call(buf)
        /\ emitted' = [emitted EXCEPT !.content = @ \o buf]
        /\ buffer' = <<>>
        /\ hstate' = "IDLE"

\* Partial markup that is not complete: the text is held back.
FeedPending(k) ==
    LET buf == buffer \o Fragment(k)
    IN  /\ has_partial_tool_call(buf)
        /\ ~is_complete_tool_call(buf)
        /\ buffer' = buf
        /\ hstate' = "PENDING"
        /\ UNCHANGED emitted

\* Complete markup (READY): the tool calls and the cleaned prose are
\* emitted, the buffer is cleared and the handler is back in IDLE.
FeedReady(k) ==
    LET buf == buffer \o Fragment(k)
    IN  /\ has_partial_tool_call(buf)
        /\ is_complete_tool_call(buf)
        /\ \E hash \in [HashKeys(buf) -> HashValues] :
               emitted' = [calls |-> Append(emitted.calls, parse_tool_calls(buf, hash)),
                           content |-> emitted.content \o _clean_content(buf)]
        /\ buffer' = <<>>
        /\ hstate' = "IDLE"

\* One fragment arrives.
Feed ==
    /\ hstate # "FLUSHED"
    /\ pos < Len(turn)
    /\ \E k \in 1..(Len(turn) - pos) :
        /\ pos' = pos + k
        /\ \/ FeedIdle(k)
           \/ FeedPending(k)
           \/ FeedReady(k)
    /\ UNCHANGED <<turn, flushed, input>>
    /\ UNCHANGED convVars

\* flush(): forced end of turn; the buffer is final content.
Flush ==
    /\ hstate # "FLUSHED"
    /\ flushed' = _clean_content(buffer)
    /\ hstate' = "FLUSHED"
    /\ UNCHANGED <<turn, pos, buffer, emitted, input>>
    /\ UNCHANGED convVars

(***************************************************************************)
(* Specifications.                                                         *)
(***************************************************************************)
NextFree == HasPartial \/ IsComplete \/ Parse \/ Clean \/ CleanAgain
SpecFree == InitFree /\ [][NextFree]_vars

NextBlock == Parse \/ Clean
SpecBlock == InitBlock /\ [][NextBlock]_vars

NextTrunc == Truncate \/ IsComplete
SpecTrunc == InitTrunc /\ [][NextTrunc]_vars

NextCalls == Parse \/ IsComplete
SpecCalls == InitCalls /\ [][NextCalls]_vars

NextStream == Feed \/ Flush
SpecStream == InitStream /\ [][NextStream]_vars

\* Every input and every operation together.
Init == InitFree \/ InitBlock \/ InitCalls \/ InitStream
Next == NextFree \/ Truncate \/ Feed \/ Flush
Spec == Init /\ [][Next]_vars

(***************************************************************************)
(* Vocabulary of the properties.                                           *)
(***************************************************************************)
\* None of the six structural markers occurs in s.
HasNoMarker(s) ==
    \A m \in 1..Len(markers) : \A i \in 1..Len(s) : ~StartsAt(s, i, markers[m])

\* s ends with a non-empty strict prefix of a marker.
EndsInsideMarker(s) ==
    \E m \in 1..Len(markers) : \E n \in 1..(Len(markers[m]) - 1) :
        /\ n <= Len(s)
        /\ \A k \in 1..n : s[Len(s) - n + k] = markers[m][k]

\* The text the handler has been given is the first `pos` characters of
\* the turn.
Delivered == SubSeq(turn, 1, pos)

(***************************************************************************)
(* C1.  Truncation monotonicity.                                           *)
(***************************************************************************)
\* C1 as stated: for any complete tool-call text T, every strict prefix P
\* of T has is_complete_tool_call(P) = false.
C1_EveryStrictPrefixIncomplete ==
    (/\ op = "is_complete"
     /\ is_complete_tool_call(Render(input))
     /\ Len(content) < Len(Render(input)))
        => ~complete

\* C1 amended: when T is one complete function block (standalone or in one
\* wrapper), preceded by marker-free prose or nothing and followed by
\* nothing, T is complete and every strict prefix of T is not.
C1_PrefixOfClosingBlockIncomplete ==
    (op = "is_complete" /\ input.suffix = <<>>)
        => (complete <=> content = Render(input))

\* A wrapped block cut right after its </function>: the function span is
\* whole, the wrapper is open, and the prefix is not complete.
C1_Witness ==
    /\ op = "is_complete"
    /\ input.suffix = <<>>
    /\ input.wrapped
    /\ Len(content) = Len(Render(input)) - Len(TOOL_CLOSE)
    /\ ~complete

(***************************************************************************)
(* C2.  Streaming of a single standalone function block.                   *)
(***************************************************************************)
\* C2: when the turn is one standalone function block, delivered in any
\* non-empty fragments, then after every fragment but the last the handler
\* is in PENDING holding all the text delivered (a partial tool call, not a
\* complete one) and has emitted nothing; after the last fragment it has
\* emitted exactly one ToolCall list, of exactly one ToolCall.
C2_StandaloneBlockStreaming ==
    turn \in StandaloneTurns =>
        /\ (0 < pos /\ pos < Len(turn)) =>
              /\ hstate \in {"PENDING", "FLUSHED"}
              /\ buffer = Delivered
              /\ has_partial_tool_call(buffer)
              /\ ~is_complete_tool_call(buffer)
              /\ emitted = [calls |-> <<>>, content |-> <<>>]
        /\ pos = Len(turn) =>
              /\ Len(emitted.calls) = 1
              /\ Len(emitted.calls[1]) = 1
              /\ buffer = <<>>

\* The block `<function=NAME><parameter=K>V</parameter></function>` has
\* been delivered to its last character and one ToolCall has come out.
C2_Witness ==
    /\ turn \in StandaloneTurns
    /\ Contains(turn, PARAM_CLOSE)
    /\ pos = Len(turn)
    /\ hstate = "IDLE"
    /\ Len(emitted.calls) = 1
    /\ Len(emitted.calls[1]) = 1

(***************************************************************************)
(* C3.  Idempotence of _clean_content.                                     *)
(***************************************************************************)
\* C3: _clean_content(_clean_content(x)) = _clean_content(x) for every x.
C3_CleanIdempotent == op = "reclean" => recleaned = cleaned

(***************************************************************************)
(* C4.  _clean_content of prose around one complete block.                 *)
(***************************************************************************)
\* C4 as stated: _clean_content(prefix + B + suffix) is prefix + suffix
\* trimmed and holds no marker, for any marker-free prefix and suffix, B
\* standalone or wrapped.
C4_CleanYieldsProse ==
    op = "clean" =>
        /\ cleaned = Strip(input.prefix \o input.suffix)
        /\ HasNoMarker(cleaned)

\* C4 amended: the same, for prefix and suffix that hold no marker and
\* whose concatenation prefix + suffix holds none either.
C4_CleanYieldsProseUnlessJoined ==
    (op = "clean" /\ HasNoMarker(input.prefix \o input.suffix)) =>
        /\ cleaned = Strip(input.prefix \o input.suffix)
        /\ HasNoMarker(cleaned)

\* A wrapped block with a parameter between two pieces of prose has been
\* cleaned to the prose.
C4_Witness ==
    /\ op = "clean"
    /\ input.wrapped
    /\ input.blocks[1].params # <<>>
    /\ input.prefix = <<"a", " ">>
    /\ input.suffix = <<"\n", "b">>
    /\ cleaned = <<"a", " ", "\n", "b">>

(***************************************************************************)
(* C5.  parse_tool_calls of one complete block.                            *)
(***************************************************************************)
\* The value stored for a raw parameter value.
StoredValue(raw) ==
    LET value == Strip(raw)
    IN  IF value # <<>> /\ Head(value) \in {"[", "{"} /\ json_loads(value).ok
        THEN json_loads(value).val
        ELSE [t |-> "str", v |-> value]

\* The parameter names of params, trimmed, each once, in first-seen order.
RECURSIVE FirstSeenKeys(_, _)
FirstSeenKeys(params, seen) ==
    IF params = <<>> THEN seen
    ELSE LET key == Strip(params[1][1])
         IN  FirstSeenKeys(Tail(params),
                           IF \E n \in 1..Len(seen) : seen[n] = key
                           THEN seen ELSE Append(seen, key))

\* The mapping C5 describes: one entry per name, in first-seen order, with
\* the value of the last parameter block of that name.
ExpectedArguments(params) ==
    LET keys == FirstSeenKeys(params, <<>>)
        last(key) == CHOOSE n \in 1..Len(params) :
                        /\ Strip(params[n][1]) = key
                        /\ \A m \in (n + 1)..Len(params) : Strip(params[m][1]) # key
    IN  [n \in 1..Len(keys) |->
            [key |-> keys[n], value |-> StoredValue(params[last(keys[n])][2])]]

\* C5: for one complete function block with N parameter blocks,
\* parse_tool_calls returns exactly one ToolCall, named by the trimmed
\* function name, whose arguments hold one entry per parameter name, in
\* first-seen order, each with the value of the last block of that name
\* (N entries when the names are distinct, none when N = 0).
C5_OneBlockOneToolCall ==
    op = "parse" =>
        /\ Len(tool_calls) = 1
        /\ tool_calls[1].type = "function"
        /\ tool_calls[1].function.name = Strip(input.blocks[1].name)
        /\ tool_calls[1].function.arguments
              = json_dumps(ExpectedArguments(input.blocks[1].params))

\* A block whose parameters are named k, x, k has been parsed: two entries,
\* k first, with the value of the third block.
C5_Witness ==
    /\ op = "parse"
    /\ Len(input.blocks[1].params) = 3
    /\ Strip(input.blocks[1].params[1][1]) = <<"k">>
    /\ Strip(input.blocks[1].params[2][1]) = <<"x">>
    /\ input.blocks[1].params[3] = << <<"k", " ">>, <<" ","w","\n","w","\n">> >>
    /\ input.blocks[1].params[1][2] = <<"v">>
    /\ Len(tool_calls) = 1
    /\ Len(ExpectedArguments(input.blocks[1].params)) = 2
    /\ ExpectedArguments(input.blocks[1].params)[1]
          = [key |-> <<"k">>, value |-> [t |-> "str", v |-> <<"w","\n","w">>]]

(***************************************************************************)
(* C6.  Distinct ids.                                                      *)
(***************************************************************************)
\* C6: the ids of the ToolCalls one parse_tool_calls call returns are
\* pairwise distinct.
C6_IdsDistinct ==
    op = "parse" =>
        \A i, j \in 1..Len(tool_calls) :
            i # j => tool_calls[i].id # tool_calls[j].id

(***************************************************************************)
(* C7.  Content without markup.                                            *)
(***************************************************************************)
\* C7 as stated: for content in which no marker occurs,
\* has_partial_tool_call and is_complete_tool_call are false,
\* parse_tool_calls is empty and _clean_content is the content trimmed.
C7_MarkerFreeIsInert ==
    HasNoMarker(content) =>
        /\ op = "has_partial" => ~partial
        /\ op = "is_complete" => ~complete
        /\ op = "parse" => tool_calls = <<>>
        /\ op = "clean" => cleaned = Strip(content)

\* C7 amended: for content in which no marker occurs,
\* has_partial_tool_call is true exactly when the content ends with a
\* non-empty strict prefix of a marker (such as `<` or `</`), and false
\* otherwise; is_complete_tool_call is false, parse_tool_calls is empty
\* and _clean_content is the content trimmed.
C7_MarkerFreeIsInertUnlessCutMarker ==
    HasNoMarker(content) =>
        /\ op = "has_partial" => (partial <=> EndsInsideMarker(content))
        /\ op = "is_complete" => ~complete
        /\ op = "parse" => tool_calls = <<>>
        /\ op = "clean" => cleaned = Strip(content)

\* Marker-free content with a `<` that is not at its end: not partial.
C7_Witness ==
    /\ op = "has_partial"
    /\ HasNoMarker(content)
    /\ Len(content) >= 2
    /\ content[1] = "<"
    /\ ~EndsInsideMarker(content)
    /\ ~partial

(***************************************************************************)
(* C8.  flush() on a pending buffer.                                       *)
(***************************************************************************)
\* C8: after fragments that leave the handler in PENDING, the text flush()
\* returns holds no marker, and is empty for the buffer
\* `<tool_call><function=f></function>`.
C8_FlushDiscardsPartialMarkup ==
    (/\ hstate = "FLUSHED"
     /\ has_partial_tool_call(buffer)
     /\ ~is_complete_tool_call(buffer))
        => /\ HasNoMarker(flushed)
           /\ buffer = UnclosedWrapper => flushed = <<>>

(***************************************************************************)
(* C9.  Lone wrapper tags.                                                 *)
(***************************************************************************)
\* The number of occurrences of m in s, counted left to right without
\* overlap.
RECURSIVE CountFrom(_, _, _)
CountFrom(s, m, from) ==
    LET i == Find(s, m, from)
    IN  IF i = 0 THEN 0 ELSE 1 + CountFrom(s, m, i + Len(m))

\* C9 as stated: a wrapper tag left after the removal of the complete spans
\* is stripped only if the original text holds no tag of the other kind; a
\* leftover `<tool_call>` stays when the original holds a `</tool_call>`,
\* and a leftover `</tool_call>` stays when the original holds a
\* `<tool_call>`.
C9_LoneTagDecidedOnOriginal ==
    op = "clean" =>
        LET rest == RemoveSpans(content)
        IN  /\ (Contains(rest, TOOL_OPEN) /\ Contains(content, TOOL_CLOSE))
                  => Contains(cleaned, TOOL_OPEN)
            /\ (Contains(rest, TOOL_CLOSE) /\ Contains(content, TOOL_OPEN))
                  => Contains(cleaned, TOOL_CLOSE)

\* C9 amended: the decision is made on the text left after the removal of
\* the complete spans.  If it holds `<tool_call>` and no `</tool_call>`,
\* every `<tool_call>` in it is stripped; if it holds `</tool_call>` and no
\* `<tool_call>`, every `</tool_call>` in it is stripped; if it holds both,
\* or neither, nothing is stripped and the result is that text trimmed.
C9_LoneTagDecidedOnRemainder ==
    op = "clean" =>
        LET rest == RemoveSpans(content)
            opens == Contains(rest, TOOL_OPEN)
            closes == Contains(rest, TOOL_CLOSE)
        IN  /\ (opens /\ ~closes) =>
                  Len(cleaned) <= Len(rest) - Len(TOOL_OPEN) * CountFrom(rest, TOOL_OPEN, 1)
            /\ (closes /\ ~opens) =>
                  Len(cleaned) <= Len(rest) - Len(TOOL_CLOSE) * CountFrom(rest, TOOL_CLOSE, 1)
            /\ (opens <=> closes) => cleaned = Strip(rest)

\* The original holds a `</tool_call>`, a lone `<tool_call>` is left after
\* the removal of the complete span, and the result does not hold it.
C9_Witness ==
    /\ op = "clean"
    /\ Contains(content, TOOL_CLOSE)
    /\ Contains(RemoveSpans(content), TOOL_OPEN)
    /\ ~Contains(RemoveSpans(content), TOOL_CLOSE)
    /\ cleaned = <<>>

(***************************************************************************)
(* C10.  No silent loss at READY.                                          *)
(***************************************************************************)
\* C10: whenever is_complete_tool_call(content) is true, parse_tool_calls
\* returns at least one ToolCall.
C10_CompleteYieldsToolCall ==
    (op = "parse" /\ is_complete_tool_call(content)) => Len(tool_calls) >= 1

=============================================================================
